---------------------------- MODULE Spec2Model ----------------------------
(***************************************************************************)
(* Time management of the engine (timeman.cpp): move_importance(),         *)
(* remaining<T>() and TimeManagement::init().                              *)
(*                                                                         *)
(* The doubles of remaining() are carried as exact fractions.  An          *)
(* importance is a whole number of units of Base^-ScaleLimbs = 10^-20      *)
(* (move_importance) or of a hundredth of that (moveImportance,            *)
(* otherMovesImportance, which share a denominator so that only numerators *)
(* are kept).  The numerators exceed the range of the integers TLC         *)
(* computes with, so they are held as sequences of limbs in base Base,     *)
(* least significant limb first.  What the rounding of the double          *)
(* operations can change in the result is kept as a set of outcomes: see   *)
(* CalculatedTime.                                                         *)
(* The int operations of init() keep the width of an int: see IntAdd.      *)
(***************************************************************************)
EXTENDS Integers, Sequences, FiniteSets

VARIABLES Options,        \* the UCI options init() reads
          control,        \* the session's time control and position: inc, movestogo, ply
          limits,         \* the Search::LimitsType object of the last call, as init() left it
          availableNodes, \* TimeManagement::availableNodes
          optimumTime,    \* TimeManagement::optimumTime
          maximumTime,    \* TimeManagement::maximumTime
          startTime,      \* TimeManagement::startTime
          called,         \* init() has run at least once
          arg,            \* limits.time[us], limits.inc[us], limits.movestogo as passed to the last call
          local,          \* hypMTG, myTime, myInc of the last call
          trapped,        \* an int operation of init() overflowed and the process was aborted
          rem             \* one call of remaining<T>(): its arguments and its return value

vars == <<Options, control, limits, availableNodes, optimumTime, maximumTime,
          startTime, called, arg, local, trapped, rem>>

Max(a, b) == IF a >= b THEN a ELSE b
Min(a, b) == IF a <= b THEN a ELSE b

(***************************************************************************)
(* Program constants.  MaxRatio and StealRatio are in hundredths.          *)
(***************************************************************************)
MoveHorizon == 100
MaxRatio == 709
StealRatio == 35
PlyCap == 200
IntMin == -2147483647 - 1
IntMax == 2147483647

(***************************************************************************)
(* int arithmetic.  An int sum, difference or product outside              *)
(* IntMin..IntMax is undefined.  A build without overflow checks computes  *)
(* it in two's complement and stores the exact result plus or minus 2^32   *)
(* (IntAdd, IntSub, IntMul); a build that checks (-ftrapv) aborts the      *)
(* process (the Overflows predicates tell when).                           *)
(***************************************************************************)
IntAddOverflows(a, b) == IF b >= 0 THEN a > IntMax - b ELSE a < IntMin - b

IntAdd(a, b) == IF ~IntAddOverflows(a, b) THEN a + b
                ELSE IF b >= 0 THEN (a - IntMax - 1) + (b - IntMax - 1)
                ELSE (a - IntMin) + (b - IntMin)

IntSubOverflows(a, b) == IF b >= 0 THEN a < IntMin + b ELSE a > IntMax + b

IntSub(a, b) == IF ~IntSubOverflows(a, b) THEN a - b
                ELSE IF b >= 0 THEN ((a - IntMin) - b) + IntMax + 1
                ELSE (a - IntMax - 1) - (b - IntMin)

\* a * b for b >= 0
IntMulOverflows(a, b) == b > 0 /\ (a > IntMax \div b \/ a < (IntMin + b - 1) \div b)

RECURSIVE IntMul(_, _)
IntMul(a, b) == IF b = 0 THEN 0
                ELSE IntAdd(IF b % 2 = 1 THEN a ELSE 0, IntMul(IntAdd(a, a), b \div 2))

(***************************************************************************)
(* Bounds of the model.                                                    *)
(***************************************************************************)
LowTime == 40
HighTime == 1000
SmallInc == 7
MidMovesToGo == 40
GamePly == 20
DefaultMinThinkingTime == 20
DefaultMoveOverhead == 30
DefaultSlowMover == 84
NodesTime == 6
SearchStart == 5
LongTime == 60000
LargeInc == 1000
LatePly == 58
HighSlowMover == 1000
HugeInc == 400000000
HugeTime == 1073741824
FittingTime == 1717986918

(***************************************************************************)
(* Whole numbers of any size: sequences of limbs, least significant first. *)
(***************************************************************************)
Base == 10000
ScaleLimbs == 5

RECURSIVE BigFromInt(_)
BigFromInt(n) == IF n < Base THEN <<n>> ELSE <<n % Base>> \o BigFromInt(n \div Base)

\* The limbs of the number whose limbs before carrying are s[i], ..., s[n], plus c
RECURSIVE CarryFrom(_, _, _, _)
CarryFrom(s, i, n, c) == IF i > n THEN (IF c = 0 THEN <<>> ELSE BigFromInt(c))
                         ELSE LET v == s[i] + c
                              IN <<v % Base>> \o CarryFrom(s, i + 1, n, v \div Base)

Carry(s, n) == CarryFrom(s, 1, n, 0)

Limb(a, i) == IF i <= Len(a) THEN a[i] ELSE 0

BigAdd(a, b) ==
  Carry([i \in 1..Max(Len(a), Len(b)) |-> Limb(a, i) + Limb(b, i)], Max(Len(a), Len(b)))

RECURSIVE Borrow(_, _, _, _)
Borrow(a, b, i, c) == IF i > Len(a) THEN <<>>
                      ELSE LET v == a[i] - Limb(b, i) - c
                           IN <<IF v < 0 THEN v + Base ELSE v>>
                              \o Borrow(a, b, i + 1, IF v < 0 THEN 1 ELSE 0)

\* a - b, for a >= b
BigSub(a, b) == Borrow(a, b, 1, 0)

RECURSIVE Conv(_, _, _, _)
Conv(a, b, k, i) == IF i > Len(a) \/ i > k THEN 0
                    ELSE Limb(a, i) * Limb(b, k + 1 - i) + Conv(a, b, k, i + 1)

BigMul(a, b) ==
  Carry([k \in 1..(Len(a) + Len(b) - 1) |-> Conv(a, b, k, Max(1, k + 1 - Len(b)))],
        Len(a) + Len(b) - 1)

RECURSIVE BigCmp(_, _, _)
BigCmp(a, b, i) == IF i = 0 THEN 0
                   ELSE IF Limb(a, i) < Limb(b, i) THEN -1
                   ELSE IF Limb(a, i) > Limb(b, i) THEN 1
                   ELSE BigCmp(a, b, i - 1)

BigLeq(a, b) == BigCmp(a, b, Max(Len(a), Len(b))) <= 0

BigIsZero(a) == \A i \in 1..Len(a) : a[i] = 0

\* 2^31 as limbs
Two31 == <<3648, 4748, 21>>

\* The index of the most significant limb of a that is not 0, for a > 0
Top(a) == CHOOSE i \in 1..Len(a) : a[i] # 0 /\ \A j \in (i + 1)..Len(a) : a[j] = 0

\* a * Base^k
Shift(a, k) == IF k = 0 THEN a ELSE [i \in 1..k |-> 0] \o a

RECURSIVE BasePow(_)
BasePow(k) == IF k = 0 THEN 1 ELSE Base * BasePow(k - 1)

\* The largest c in 0..guess with c * d * Base^k <= r
RECURSIVE QuotientLimb(_, _, _, _)
QuotientLimb(r, d, k, guess) ==
  IF guess = 0 \/ BigLeq(Shift(BigMul(d, <<guess>>), k), r) THEN guess
  ELSE QuotientLimb(r, d, k, guess - 1)

(***************************************************************************)
(* <<r div d, r mod d>> by long division in base Base, limb k of the       *)
(* quotient first, for r < d * Base^(k+1) and a d whose most significant   *)
(* limb d[top] is at least Base / 2: the two leading limbs of r divided by *)
(* d[top] are then the limb of the quotient or exceed it by 2 at most.     *)
(***************************************************************************)
RECURSIVE BigDivLimbs(_, _, _, _)
BigDivLimbs(r, d, top, k) ==
  IF k < 0 THEN <<0, r>>
  ELSE LET guess == Min((Limb(r, top + k + 1) * Base + Limb(r, top + k)) \div d[top], Base - 1)
           c == QuotientLimb(r, d, k, guess)
           rest == BigDivLimbs(BigSub(r, Shift(BigMul(d, <<c>>), k)), d, top, k - 1)
       IN <<c * BasePow(k) + rest[1], rest[2]>>

\* The factor that brings the most significant limb of d > 0 to Base / 2 at least
Normalizer(d) == <<Base \div (d[Top(d)] + 1)>>

\* <<n div d, n mod d>> for n div d < 2^31 and d as BigDivLimbs needs it
BigDivMod(n, d) == BigDivLimbs(n, d, Top(d), 2)

(***************************************************************************)
(* move_importance(ply) in units of 10^-20, as limbs: the doubles the      *)
(* function returns, rounded to the nearest unit (a relative error below   *)
(* 10^-16),                                                                *)
(* for every ply remaining() can ask for: 0 .. PlyCap + 2 * (MoveHorizon-1)*)
(***************************************************************************)
MoveImportanceTable == <<
  <<1350, 9655, 2639, 1238, 9999>>, <<6409, 365, 3968, 13, 9999>>, <<3092, 6066, 3594, 8617, 9998>>, <<6645, 8284, 2504, 7026, 9998>>,
  <<4141, 1471, 8365, 5212, 9998>>, <<948, 5040, 895, 3146, 9998>>, <<3478, 7990, 6603, 790, 9998>>, <<6, 2328, 2796, 8106, 9997>>,
  <<4414, 9018, 765, 5047, 9997>>, <<9831, 4516, 8049, 1560, 9997>>, <<4917, 5736, 9627, 7587, 9996>>, <<4344, 5751, 7929, 3060, 9996>>,
  <<5202, 418, 1485, 7902, 9995>>, <<9241, 6849, 2046, 2024, 9995>>, <<3940, 7748, 9987, 5326, 9994>>, <<6766, 1108, 7755, 7696, 9993>>,
  <<4406, 3560, 1134, 9004, 9992>>, <<8665, 9362, 8058, 9101, 9991>>, <<6917, 9037, 4666, 7822, 9990>>, <<7084, 6891, 8282, 4975, 9989>>,
  <<797, 2721, 6973, 345, 9988>>, <<6403, 709, 5302, 3686, 9986>>, <<9707, 2872, 5880, 4719, 9984>>, <<8909, 5941, 6296, 3128, 9982>>,
  <<1702, 6499, 994, 8555, 9979>>, <<729, 5505, 7667, 592, 9977>>, <<1764, 6377, 7753, 8781, 9973>>, <<4952, 9802, 654, 2602, 9970>>,
  <<9167, 7725, 1365, 1466, 9966>>, <<3667, 501, 1302, 4711, 9961>>, <<5404, 6519, 2277, 1590, 9956>>, <<8810, 5709, 3787, 1263, 9950>>,
  <<9397, 1386, 4054, 2787, 9943>>, <<5437, 2312, 5681, 5105, 9935>>, <<7736, 5948, 7265, 7036, 9926>>, <<8742, 4249, 2951, 7264, 9916>>,
  <<9131, 9399, 2701, 4325, 9905>>, <<9981, 9143, 7012, 6599, 9892>>, <<5387, 6121, 912, 2301, 9878>>, <<5347, 9781, 3370, 9468, 9861>>,
  <<7564, 9955, 9647, 5959, 9843>>, <<9090, 9627, 5586, 9451, 9822>>, <<2964, 4573, 4304, 7437, 9799>>, <<9093, 5291, 6998, 7237, 9773>>,
  <<8692, 5901, 489, 6012, 9744>>, <<4793, 8287, 4368, 781, 9712>>, <<6996, 6716, 9954, 8458, 9675>>, <<1284, 3176, 1323, 5891, 9635>>,
  <<2632, 9178, 5176, 9909, 9590>>, <<9948, 755, 1014, 7394, 9541>>, <<8750, 8120, 5901, 5346, 9487>>, <<9102, 6340, 9291, 972, 9428>>,
  <<8128, 261, 3274, 1772, 9363>>, <<797, 8811, 3290, 5629, 9292>>, <<4318, 6844, 4833, 904, 9216>>, <<8140, 3197, 4490, 6518, 9133>>,
  <<2150, 9633, 336, 2024, 9045>>, <<5958, 4258, 8322, 7660, 8950>>, <<682, 2996, 8622, 4387, 8850>>, <<8150, 8471, 8805, 3890, 8744>>,
  <<9266, 2791, 8000, 8562, 8632>>, <<8436, 4266, 6165, 1457, 8516>>, <<8667, 610, 2676, 6220, 8394>>, <<4958, 1172, 6113, 6996, 8268>>,
  <<1514, 6025, 323, 8329, 8138>>, <<8697, 8549, 9020, 5043, 8005>>, <<431, 7999, 2036, 2137, 7869>>, <<737, 5973, 1345, 4664, 7730>>,
  <<5273, 9706, 5449, 7637, 7589>>, <<2326, 2603, 8381, 5938, 7447>>, <<1955, 3519, 6208, 4243, 7304>>, <<9532, 990, 1152, 6963, 7160>>,
  <<4974, 1787, 2322, 8201, 7016>>, <<9072, 6522, 3413, 1726, 6873>>, <<6011, 6181, 1652, 956, 6730>>, <<4110, 3268, 8741, 8953, 6587>>,
  <<9357, 3147, 3166, 8433, 6446>>, <<475, 8565, 3524, 1771, 6307>>, <<1888, 1320, 3999, 1025, 6169>>, <<3943, 9485, 5309, 7954, 6032>>,
  <<3154, 7705, 7036, 4042, 5898>>, <<9603, 4602, 9813, 522, 5766>>, <<7174, 7963, 8402, 8401, 5635>>, <<4513, 7498, 8896, 8482, 5507>>,
  <<5588, 7003, 5222, 1389, 5382>>, <<7901, 9223, 1740, 7586, 5258>>, <<6136, 5311, 7, 7398, 5137>>, <<4681, 9026, 8778, 1028, 5019>>,
  <<2451, 2982, 7086, 8577, 4902>>, <<7041, 6036, 753, 53, 4789>>, <<2831, 9516, 3105, 5386, 4677>>, <<8223, 1682, 858, 4443, 4568>>,
  <<7301, 4139, 6310, 7033, 4461>>, <<9316, 290, 7040, 2921, 4357>>, <<6028, 6110, 4284, 1832, 4255>>, <<7335, 5626, 1178, 3459, 4155>>,
  <<454, 8404, 1946, 7469, 4057>>, <<2235, 3342, 3085, 3509, 3962>>, <<3432, 6025, 7474, 1209, 3869>>, <<1492, 9000, 2287, 188, 3778>>,
  <<7763, 3242, 1469, 53, 3689>>, <<161, 9735, 3475, 406, 3602>>, <<3087, 8648, 4900, 845, 3517>>, <<4295, 9238, 521, 966, 3434>>,
  <<5406, 524, 257, 363, 3353>>, <<1932, 2042, 3446, 8632, 3273>>, <<6552, 3886, 828, 5372, 3196>>, <<7066, 3005, 4534, 183, 3121>>,
  <<5478, 4253, 6373, 2671, 3047>>, <<2424, 5789, 4657, 2446, 2975>>, <<2909, 4402, 9770, 9122, 2904>>, <<6481, 2783, 8664, 2321, 2836>>,
  <<9793, 3328, 8440, 1669, 2769>>, <<7981, 7668, 9147, 6799, 2703>>, <<1109, 4043, 5917, 7351, 2639>>, <<1531, 2450, 530, 2971, 2577>>,
  <<9821, 7114, 2506, 3311, 2516>>, <<3665, 4489, 9790, 8031, 2456>>, <<4790, 238, 9090, 6799, 2398>>, <<8791, 8346, 5932, 9288, 2341>>,
  <<9675, 7647, 4477, 5178, 2286>>, <<7871, 4100, 7126, 4156, 2232>>, <<5346, 9505, 3966, 5917, 2179>>, <<972, 7822, 2079, 161, 2128>>,
  <<9061, 7711, 4729, 6595, 2077>>, <<223, 3374, 466, 4934, 2028>>, <<3799, 4413, 2149, 4897, 1980>>, <<5826, 8567, 5916, 6211, 1933>>,
  <<6368, 8077, 105, 8610, 1887>>, <<5388, 718, 4140, 1831, 1843>>, <<4484, 9584, 7391, 5620, 1799>>, <<39, 1222, 8027, 9728, 1756>>,
  <<4666, 9312, 1838, 3912, 1715>>, <<3909, 469, 1078, 7933, 1674>>, <<3134, 9666, 3281, 1559, 1635>>, <<5052, 5033, 108, 4564, 1596>>,
  <<7397, 5141, 6176, 6725, 1558>>, <<8328, 6235, 7916, 7827, 1521>>, <<7383, 2048, 2434, 7659, 1485>>, <<1661, 4714, 6386, 6013, 1450>>,
  <<7699, 1788, 4875, 2689, 1416>>, <<5620, 1409, 356, 7490, 1382>>, <<3564, 5075, 1566, 223, 1350>>, <<1456, 5389, 2470, 701, 1318>>,
  <<1242, 4263, 1224, 8741, 1286>>, <<7396, 5553, 9160, 4163, 1256>>, <<3789, 4769, 9791, 6794, 1226>>, <<3064, 7409, 7833, 6463, 1197>>,
  <<9140, 6548, 8251, 3003, 1169>>, <<475, 9519, 5320, 6252, 1141>>, <<6089, 2870, 1712, 6051, 1114>>, <<9850, 4278, 7594, 2244, 1088>>,
  <<6825, 9591, 9756, 4681, 1062>>, <<7625, 2855, 752, 3215, 1037>>, <<7946, 6860, 8056, 7699, 1012>>, <<7752, 1489, 3250, 7995, 988>>,
  <<2484, 6973, 1214, 3964, 965>>, <<4052, 8997, 9350, 5471, 942>>, <<2004, 2486, 6812, 2387, 920>>, <<9261, 805, 3757, 4583, 898>>,
  <<7320, 7065, 617, 1934, 877>>, <<6710, 4155, 7386, 4317, 856>>, <<8382, 134, 2918, 1615, 836>>, <<3727, 5580, 4248, 3710, 816>>,
  <<6, 9511, 5929, 489, 797>>, <<5414, 512, 9380, 1841, 778>>, <<2983, 9724, 2247, 7659, 759>>, <<7389, 2367, 7794, 7835, 741>>,
  <<260, 4547, 4285, 2268, 724>>, <<1509, 2088, 4403, 856, 707>>, <<4157, 8227, 4666, 3501, 690>>, <<726, 7021, 4869, 107, 674>>,
  <<8949, 9387, 7528, 580, 658>>, <<4901, 8758, 7347, 4829, 642>>, <<1498, 3359, 691, 2765, 627>>, <<9569, 2213, 5073, 4299, 612>>,
  <<1875, 2006, 8656, 9347, 597>>, <<2339, 1999, 9763, 7826, 583>>, <<5477, 4273, 6400, 9655, 569>>, <<5577, 6593, 5791, 4754, 556>>,
  <<8039, 5276, 3923, 3046, 543>>, <<509, 5495, 5101, 4455, 530>>, <<2858, 6488, 1516, 8908, 517>>, <<8394, 9238, 2821, 6332, 505>>,
  <<64, 4192, 5719, 6657, 493>>, <<1899, 6682, 3556, 9815, 481>>, <<2490, 7757, 5932, 5738, 470>>, <<7832, 8164, 8313, 4361, 459>>,
  <<1272, 3299, 1657, 5621, 448>>, <<8952, 6968, 2045, 9454, 437>>, <<932, 1892, 328, 5800, 427>>, <<1506, 4868, 1771, 4599, 417>>,
  <<1993, 4635, 5718, 5793, 407>>, <<9172, 452, 5255, 9326, 397>>, <<8727, 9512, 6884, 5142, 388>>, <<9202, 1305, 212, 3188, 379>>,
  <<8460, 7136, 7630, 3409, 370>>, <<6486, 3001, 4022, 5756, 361>>, <<3076, 4102, 6460, 177, 353>>, <<4431, 9296, 3921, 6624, 344>>,
  <<2795, 3837, 7005, 5048, 336>>, <<3218, 8781, 7655, 5403, 328>>, <<4621, 5491, 8896, 7643, 320>>, <<1890, 3696, 4566, 1724, 313>>,
  <<4985, 1597, 9064, 7601, 305>>, <<4436, 6565, 7098, 5233, 298>>, <<7465, 4979, 3444, 4578, 291>>, <<8020, 9825, 2703, 5595, 284>>,
  <<5539, 4671, 9074, 8244, 277>>, <<3528, 2698, 6121, 2488, 271>>, <<3924, 9476, 6555, 8288, 264>>, <<699, 8219, 2019, 5608, 258>>,
  <<4897, 6269, 2872, 4411, 252>>, <<4191, 1609, 7986, 4662, 246>>, <<4050, 8207, 4542, 6328, 240>>, <<4661, 9047, 7838, 9374, 234>>,
  <<7034, 5713, 1092, 3769, 229>>, <<831, 3425, 5256, 9479, 223>>, <<935, 449, 8834, 6474, 218>>, <<2200, 839, 7702, 4724, 213>>,
  <<8720, 9475, 4934, 4199, 208>>, <<8308, 8404, 634, 4870, 203>>, <<2465, 3500, 1765, 6708, 198>>, <<5072, 493, 1989, 9686, 193>>,
  <<6999, 9440, 1508, 3777, 189>>, <<210, 6715, 6913, 8954, 184>>, <<8985, 3637, 1026, 5193, 180>>, <<8884, 882, 2757, 2467, 176>>,
  <<530, 7802, 6958, 752, 172>>, <<7345, 5852, 4286, 25, 168>>, <<3606, 5313, 1060, 262, 164>>, <<3595, 4504, 9131, 1439, 160>>,
  <<1222, 741, 5750, 3536, 156>>, <<6595, 2271, 3439, 6530, 152>>, <<7467, 461, 9869, 399, 149>>, <<7482, 1515, 7735, 5124, 145>>,
  <<383, 7030, 4639, 684, 142>>, <<1162, 2700, 2975, 7059, 138>>, <<6625, 4512, 9811, 4229, 135>>, <<6585, 1772, 6784, 2177, 132>>,
  <<7497, 6331, 9987, 883, 129>>, <<1092, 7395, 9868, 330, 126>>, <<3795, 1304, 1124, 501, 123>>, <<7259, 5702, 2599, 1377, 120>>,
  <<4956, 7507, 7191, 2942, 117>>, <<5970, 4124, 1752, 5181, 114>>, <<8268, 7356, 6994, 8076, 111>>, <<8017, 9466, 7401, 1613, 109>>,
  <<1692, 872, 1138, 5777, 106>>, <<4637, 8959, 9960, 551, 104>>, <<5448, 7517, 9136, 5923, 101>>, <<46, 6303, 7357, 1878, 99>>,
  <<6106, 259, 6660, 8402, 96>>, <<6471, 7928, 2345, 5482, 94>>, <<6632, 8593, 2904, 3104, 92>>, <<4873, 7718, 9939, 1255, 90>>,
  <<4037, 243, 8092, 9924, 87>>, <<7704, 1318, 4970, 9098, 85>>, <<6338, 4061, 1079, 8765, 83>>, <<9613, 3933, 9753, 8912, 81>>,
  <<6158, 9347, 7086, 9530, 79>>, <<5568, 8113, 1870, 607, 78>>, <<8948, 9358, 5527, 2131, 76>>, <<2834, 546, 2051, 4093, 74>>,
  <<7290, 9238, 7941, 6481, 72>>, <<5452, 9259, 2151, 9287, 70>>, <<1885, 908, 6024, 2499, 69>>, <<9403, 4897, 3236, 6109, 67>>,
  <<9504, 9691, 9746, 106, 66>>, <<2606, 1919, 3739, 4483, 64>>, <<4783, 9562, 5569, 9229, 62>>, <<5410, 7613, 7717, 4336, 61>>,
  <<7784, 5903, 4732, 9796, 59>>, <<603, 8819, 3186, 5600, 58>>, <<812, 6619, 1627, 1740, 57>>, <<6797, 8086, 529, 8208, 55>>,
  <<9372, 4237, 2250, 4996, 54>>, <<4384, 2832, 984, 2097, 53>>, <<2, 3427, 2720, 9503, 51>>, <<3156, 2724, 5199, 7207, 50>>,
  <<9094, 9971, 7871, 5202, 49>>, <<4415, 2174, 1859, 3482, 48>>, <<1515, 8886, 9911, 2038, 47>>, <<7465, 6357, 6372, 866, 46>>,
  <<1865, 815, 7138, 9958, 44>>, <<3209, 655, 9622, 9308, 43>>, <<5239, 7346, 2719, 8911, 42>>, <<5896, 4828, 6772, 8759, 41>>,
  <<417, 7211, 3533, 8848, 40>>, <<6452, 4572, 6135, 9171, 39>>, <<3869, 6671, 9055, 9723, 38>>, <<7427, 4376, 8086, 499, 38>>,
  <<2579, 8642, 302, 1494, 37>>, <<2676, 6839, 4032, 2701, 36>>, <<2514, 6278, 8826, 4116, 35>>, <<9372, 4746, 5429, 5735, 34>>,
  <<8561, 7899, 5751, 7552, 33>>, <<4310, 3336, 2842, 9563, 32>>, <<130, 1210, 861, 1763, 32>>, <<6988, 1212, 5053, 4147, 31>>,
  <<2774, 5785, 1722, 6712, 30>>, <<1874, 9405, 8207, 9452, 29>>, <<448, 3808, 2857, 2365, 29>>, <<249, 9003, 5004, 5445, 28>>,
  <<2628, 9944, 4946, 8689, 27>>, <<372, 8725, 3919, 2093, 27>>, <<5343, 2163, 4077, 5653, 26>>, <<7481, 4652, 8468, 9365, 25>>,
  <<2012, 6150, 1017, 3227, 25>>, <<3189, 5185, 6502, 7233, 24>>, <<822, 6766, 534, 1382, 24>>, <<9047, 5068, 9539, 5668, 23>>,
  <<3269, 798, 737, 91, 23>>, <<5370, 3106, 2123, 4645, 22>>, <<346, 5964, 2451, 9328, 21>>, <<7448, 8876, 1214, 4137, 21>>,
  <<3349, 1846, 8628, 9068, 20>>, <<5015, 4473, 5611, 4120, 20>>, <<9222, 9105, 3772, 9289, 19>>, <<6063, 7935, 5392, 4572, 19>>,
  <<5748, 3951, 3407, 9967, 18>>, <<714, 5657, 1393, 5471, 18>>, <<463, 5462, 3553, 1081, 18>>, <<8035, 1663, 4700, 6795, 17>>,
  <<2499, 3931, 242, 2611, 17>>, <<3651, 2209, 6171, 8525, 16>>, <<2736, 8963, 9045, 4536, 16>>, <<6482, 4682, 5980, 642, 16>>,
  <<6114, 6569, 4630, 6840, 15>>, <<3481, 334, 3181, 3128, 15>>, <<2161, 5025, 332, 9504, 14>>, <<3152, 821, 5290, 5965, 14>>,
  <<6730, 9717, 7750, 2510, 14>>, <<2162, 9034, 7892, 9137, 13>>, <<9864, 7681, 6362, 5844, 13>>, <<2465, 5121, 4265, 2629, 13>>,
  <<6406, 2947, 3153, 9490, 12>>, <<5434, 9044, 5014, 6425, 12>>, <<4243, 4240, 2265, 3433, 12>>, <<2796, 1412, 7736, 511, 12>>,
  <<247, 6977, 4664, 7659, 11>>, <<5474, 4714, 6685, 4874, 11>>, <<9723, 1866, 7820, 2155, 11>>, <<4830, 7460, 2468, 9501, 10>>,
  <<8998, 2796, 5400, 6909, 10>>, <<9489, 4063, 1744, 4379, 10>>, <<7188, 7013, 6982, 1908, 10>>, <<6292, 3660, 6940, 9496, 9>>,
  <<9955, 950, 7778, 7141, 9>>, <<4948, 1357, 5984, 4842, 9>>, <<1462, 5353, 8366, 2597, 9>>, <<696, 5720, 2045, 406, 9>>,
  <<8069, 3649, 4446, 8266, 8>>, <<6491, 6592, 3291, 6177, 8>>, <<7637, 7814, 6594, 4137, 8>>, <<4618, 7622, 2652, 2146, 8>>,
  <<3479, 6214, 39, 202, 8>>, <<6701, 8122, 7599, 8303, 7>>, <<4425, 8206, 4441, 6450, 7>>, <<3945, 9159, 9931, 4640, 7>>,
  <<490, 497, 3688, 2874, 7>>, <<8757, 8987, 5573, 1149, 7>>, <<2869, 494, 5693, 9465, 6>>, <<2518, 3190, 4383, 7821, 6>>,
  <<7574, 2122, 2211, 6216, 6>>, <<4646, 5085, 9966, 4648, 6>>, <<3839, 9773, 8656, 3118, 6>>, <<3967, 2188, 9503, 1624, 6>>,
  <<8512, 6265, 3933, 166, 6>>, <<4404, 4693, 3579, 8742, 5>>, <<1210, 894, 270, 7352, 5>>, <<4742, 2145, 6028, 5994, 5>>,
  <<7260, 3808, 3065, 4669, 5>>, <<165, 4641, 3777, 3375, 5>>, <<3846, 3165, 740, 2112, 5>>, <<3723, 5073, 6705, 878, 5>>,
  <<8998, 1635, 4596, 9674, 4>>, <<4098, 9098, 7502, 8498, 4>>, <<1057, 9037, 8679, 7350, 4>>, <<4525, 9653, 1540, 6230, 4>>,
  <<8282, 7984, 9655, 5135, 4>>, <<5260, 3009, 6746, 4067, 4>>, <<259, 9625, 6682, 3024, 4>>, <<8411, 3478, 3481, 2006, 4>>,
  <<7286, 6631, 1298, 1012, 4>>, <<6467, 4033, 4430, 41, 4>>, <<1185, 793, 7307, 9093, 3>>, <<3005, 221, 4491, 8168, 3>>,
  <<3675, 2632, 673, 7265, 3>>, <<3854, 4882, 670, 6383, 3>>, <<984, 629, 9422, 5521, 3>>, <<6454, 1295, 1987, 4681, 3>>,
  <<4899, 7721, 3541, 3860, 3>>, <<3622, 2484, 9376, 3058, 3>>, <<2576, 2877, 4892, 2276, 3>>, <<399, 4525, 5600, 1512, 3>>,
  <<4934, 5625, 7117, 766, 3>>, <<305, 1800, 5164, 38, 3>>, <<6722, 1539, 5562, 9327, 2>> >>

move_importance(ply) == MoveImportanceTable[ply + 1]

TimeTypes == {"OptimumTime", "MaxTime"}

\* TMaxRatio and TStealRatio of remaining<T>, in hundredths
TMaxRatio(T) == IF T = "OptimumTime" THEN 100 ELSE MaxRatio
TStealRatio(T) == IF T = "OptimumTime" THEN 0 ELSE StealRatio

\* ply = std::min(ply, 200)
CapPly(ply) == Min(ply, PlyCap)

\* moveImportance = (move_importance(ply) * slowMover) / 100, in hundredths of a unit
moveImportance(ply, slowMover) == BigMul(move_importance(ply), BigFromInt(slowMover))

\* Limb k of the sum of move_importance(ply + 2 * i) for i in lo..hi, before carrying
RECURSIVE SumLimb(_, _, _, _)
SumLimb(ply, lo, hi, k) ==
  IF lo > hi THEN 0
  ELSE IF lo = hi THEN move_importance(ply + 2 * lo)[k]
  ELSE SumLimb(ply, lo, (lo + hi) \div 2, k) + SumLimb(ply, (lo + hi) \div 2 + 1, hi, k)

SumImportance(ply, lo, hi) == [k \in 1..ScaleLimbs |-> SumLimb(ply, lo, hi, k)]

\* for (int i = 1; i < movesToGo; ++i) otherMovesImportance += move_importance(ply + 2 * i),
\* in hundredths of a unit
otherMovesImportance_FromZero(ply, movesToGo) ==
  BigMul(Carry(SumImportance(ply, 0, movesToGo - 1), ScaleLimbs), <<100>>)
otherMovesImportance(ply, movesToGo) ==
  BigMul(Carry(SumImportance(ply, 1, movesToGo - 1), ScaleLimbs), <<100>>)

\* The limbs of |n|; the int n may be INT_MIN
BigAbs(n) == IF n >= 0 THEN BigFromInt(n)
             ELSE IF n = IntMin THEN Two31
             ELSE BigFromInt(-n)

(***************************************************************************)
(* expectedTime = myTime + myInc * otherMovesImportance / moveImportance,  *)
(* times moveImportance, for myTime >= 0: whether it is negative (myInc    *)
(* may be), its magnitude, and the sum of the magnitudes of its two terms. *)
(***************************************************************************)
expectedTimeNum(myTime, myInc, mI, oMI) ==
  LET first == BigMul(BigFromInt(myTime), mI)
      second == BigMul(BigAbs(myInc), oMI)
  IN IF myInc >= 0
     THEN [negative |-> FALSE, magnitude |-> BigAdd(first, second), terms |-> BigAdd(first, second)]
     ELSE IF BigLeq(second, first)
     THEN [negative |-> FALSE, magnitude |-> BigSub(first, second), terms |-> BigAdd(first, second)]
     ELSE [negative |-> TRUE, magnitude |-> BigSub(second, first), terms |-> BigAdd(first, second)]

\* ratio1 = (TMaxRatio * moveImportance) / (TMaxRatio * moveImportance + otherMovesImportance),
\* as <<numerator, denominator>>, both times 100
ratio1(T, mI, oMI) ==
  LET n == BigMul(BigFromInt(TMaxRatio(T)), mI)
  IN <<n, BigAdd(n, BigMul(<<100>>, oMI))>>

\* ratio2 = (moveImportance + TStealRatio * otherMovesImportance) / (moveImportance + otherMovesImportance),
\* as <<numerator, denominator>>, both times 100
ratio2(T, mI, oMI) ==
  <<BigAdd(BigMul(<<100>>, mI), BigMul(BigFromInt(TStealRatio(T)), oMI)),
    BigAdd(BigMul(<<100>>, mI), BigMul(<<100>>, oMI))>>

\* std::min(ratio1, ratio2)
RatMin(r, s) == IF BigLeq(BigMul(r[1], s[2]), BigMul(s[1], r[2])) THEN r ELSE s

\* return std::min(calculatedTime, myTime)
CapAtMyTime(calculatedTime, myTime) == Min(calculatedTime, myTime)

(***************************************************************************)
(* With moveImportance = 0 the quotient myInc * otherMovesImportance /     *)
(* moveImportance is infinite or NaN and the product converted to int is   *)
(* always NaN.  The conversion is undefined: cvttsd2si (x86-64) yields     *)
(* INT_MIN, fcvtzs (AArch64) yields 0.                                     *)
(***************************************************************************)
NaNToInt == {IntMin, 0}

(***************************************************************************)
(* A product of 2^31 or more does not fit the int it is converted to.  The *)
(* conversion is undefined: cvttsd2si (x86-64) yields INT_MIN, fcvtzs      *)
(* (AArch64) yields INT_MAX.                                               *)
(***************************************************************************)
OutOfRangeToInt == {IntMin, IntMax}

(***************************************************************************)
(* A product of -2^31 or less becomes INT_MIN: above -2^31 - 1 that is its *)
(* whole part, from there on the conversion is undefined and both          *)
(* cvttsd2si and fcvtzs yield INT_MIN.                                     *)
(***************************************************************************)
BelowRangeToInt == {IntMin}

(***************************************************************************)
(* The double product expectedTime * std::min(ratio1, ratio2) is not the   *)
(* exact product n / d: each of the at most 99 additions of the loop and   *)
(* of the dozen operations of lines 65 to 78 rounds its result by a        *)
(* relative 2^-53 at most.  The importances, the ratios and myTime are not *)
(* negative, so that the errors add up to less than 10^-13 of the product  *)
(* e / d of the ratio and the sum of the magnitudes of the two terms of    *)
(* expectedTime; with myInc >= 0 that is the product n / d itself.  The    *)
(* model allows an error of Base^-RoundingLimbs = 10^-12 of e / d.         *)
(***************************************************************************)
RoundingLimbs == 3

(***************************************************************************)
(* int(expectedTime * std::min(ratio1, ratio2)), the exact product being   *)
(* n / d, or -n / d when negative: the whole parts (the conversion         *)
(* truncates towards zero) of the doubles within the rounding error of it. *)
(* These are the whole part q of the exact product, the whole number next  *)
(* to q towards zero when the product is q or just beyond it (with         *)
(* myTime = myInc = 1000, movesToGo = 2, ply = 0 and slowMover = 84 the    *)
(* exact product is 1000 and the code returns 999) and the whole number    *)
(* next to q away from zero when the product is just short of it.  With    *)
(* otherMovesImportance = 0 every operation is exact and the product is    *)
(* myTime.                                                                 *)
(***************************************************************************)
CalculatedTime(negative, n0, e0, d0, exact) ==
  LET n == BigMul(n0, Normalizer(d0))
      e == BigMul(e0, Normalizer(d0))
      d == BigMul(d0, Normalizer(d0))
      sign == IF negative THEN -1 ELSE 1
  IN IF exact THEN {BigDivMod(n, d)[1]}
     ELSE IF BigLeq(Shift(BigMul(d, Two31), RoundingLimbs), BigAdd(Shift(n, RoundingLimbs), e))
     THEN (IF negative THEN BelowRangeToInt ELSE OutOfRangeToInt)
          \cup (IF BigLeq(Shift(BigMul(d, Two31), RoundingLimbs), Shift(n, RoundingLimbs))
                THEN {} ELSE {sign * IntMax})
     ELSE LET qr == BigDivMod(n, d)
              towardsZero == /\ qr[1] > 0
                             /\ ~BigLeq(e, Shift(qr[2], RoundingLimbs))
              awayFromZero == BigLeq(Shift(BigSub(d, qr[2]), RoundingLimbs), e)
          IN {sign * qr[1]} \cup (IF towardsZero THEN {sign * (qr[1] - 1)} ELSE {})
                            \cup (IF awayFromZero THEN {sign * (qr[1] + 1)} ELSE {})

\* remaining<T>(myTime, myInc, movesToGo, ply, slowMover): the values it may return
remaining(T, myTime, myInc, movesToGo, ply0, slowMover) ==
  LET ply == CapPly(ply0)
      mI == moveImportance(ply, slowMover)
      oMI == otherMovesImportance(ply, movesToGo)
  IN IF BigIsZero(mI)
     THEN {CapAtMyTime(c, myTime) : c \in NaNToInt}
     ELSE LET r == RatMin(ratio1(T, mI, oMI), ratio2(T, mI, oMI))
              expectedTime == expectedTimeNum(myTime, myInc, mI, oMI)
              calculatedTime == CalculatedTime(expectedTime.negative,
                                               BigMul(expectedTime.magnitude, r[1]),
                                               BigMul(expectedTime.terms, r[1]),
                                               BigMul(mI, r[2]), BigIsZero(oMI))
          IN {CapAtMyTime(c, myTime) : c \in calculatedTime}

(***************************************************************************)
(* TimeManagement::init                                                    *)
(***************************************************************************)
\* hypMTG = limits.movestogo ? std::min(limits.movestogo, MoveHorizon) : MoveHorizon
HypMTG_NoZero(movestogo) == Min(movestogo, MoveHorizon)
HypMTG(movestogo) == IF movestogo # 0 THEN Min(movestogo, MoveHorizon) ELSE MoveHorizon

\* myTime = std::max(limits.time[us] - moveOverhead, 0)
MyTime_Plus(time, moveOverhead) == Max(IntAdd(time, moveOverhead), 0)
MyTime(time, moveOverhead) == Max(IntSub(time, moveOverhead), 0)

\* std::max(optimumTime, minThinkingTime)
AtLeastMinimum(t, minThinkingTime) == Max(t, minThinkingTime)

\* a / b of two ints: C++ truncates towards zero
TruncDiv(a, b) == IF a >= 0 THEN a \div b ELSE (a + b - 1) \div b

\* optimumTime += optimumTime / 4
PonderTime_Half(t) == IntAdd(t, TruncDiv(t, 2))
PonderTime(t) == IntAdd(t, TruncDiv(t, 4))

\* limits.inc[us] *= npmsec
NodesInc_Unscaled(inc, npmsec) == inc
NodesInc(inc, npmsec) == IntMul(inc, npmsec)

\* availableNodes = npmsec * limits.time[us]
NodesOfTime(time, npmsec) == IntMul(time, npmsec)

(***************************************************************************)
(* init(limits, us, ply) from availableNodes = avail and the options opts: *)
(* the states it may leave when it returns, and whether a build that       *)
(* checks int overflow aborts it instead (no state is left then).          *)
(***************************************************************************)
TimeInit(opts, avail, lim, ply) ==
  LET minThinkingTime == opts.minThinkingTime
      moveOverhead == opts.moveOverhead
      slowMover == opts.slowMover
      npmsec == opts.nodestime
      once == npmsec # 0 /\ avail = 0
      nodes == IF once THEN NodesOfTime(lim.time, npmsec) ELSE avail
      lim2 == IF npmsec # 0
              THEN [lim EXCEPT !.time = nodes, !.inc = NodesInc(lim.inc, npmsec), !.npmsec = npmsec]
              ELSE lim
      hypMTG == HypMTG(lim2.movestogo)
      myTime == MyTime(lim2.time, moveOverhead)
      myInc == lim2.inc
      overflows == \/ once /\ IntMulOverflows(lim.time, npmsec)
                   \/ npmsec # 0 /\ IntMulOverflows(lim.inc, npmsec)
                   \/ IntSubOverflows(lim2.time, moveOverhead)
  IN { [availableNodes |-> nodes,
        limits |-> lim2,
        startTime |-> lim2.startTime,
        hypMTG |-> hypMTG, myTime |-> myTime, myInc |-> myInc,
        optimumRaw |-> o, maximumRaw |-> m,
        optimumTime |-> IF opts.Ponder THEN PonderTime(AtLeastMinimum(o, minThinkingTime))
                        ELSE AtLeastMinimum(o, minThinkingTime),
        maximumTime |-> AtLeastMinimum(m, minThinkingTime),
        overflows |-> \/ overflows
                      \/ /\ opts.Ponder
                         /\ IntAddOverflows(AtLeastMinimum(o, minThinkingTime),
                                            TruncDiv(AtLeastMinimum(o, minThinkingTime), 4))] :
       o \in remaining("OptimumTime", myTime, myInc, hypMTG, ply, slowMover),
       m \in remaining("MaxTime", myTime, myInc, hypMTG, ply, slowMover) }

(***************************************************************************)
(* The state machine: a session with fixed options and time control, in    *)
(* which init() is called once per search with the time left on the clock. *)
(***************************************************************************)
OptionValues == [minThinkingTime : {0, DefaultMinThinkingTime},
                 moveOverhead : {0, DefaultMoveOverhead},
                 slowMover : {0, DefaultSlowMover},
                 nodestime : {0, NodesTime},
                 Ponder : BOOLEAN]

ControlValues == [inc : {0, SmallInc, HugeInc},
                  movestogo : {0, 1, MidMovesToGo, MoveHorizon + 1},
                  ply : {GamePly}]

TimeValues == {0, LowTime, HighTime, HugeTime, FittingTime}

NoLimits == [time |-> 0, inc |-> 0, movestogo |-> 0, npmsec |-> 0, startTime |-> 0]
NoArg == [time |-> 0, inc |-> 0, movestogo |-> 0, ply |-> 0]
NoLocal == [hypMTG |-> 0, myTime |-> 0, myInc |-> 0, optimumRaw |-> 0, maximumRaw |-> 0]
NoRem == [T |-> "OptimumTime", myTime |-> 0, myInc |-> 0, movesToGo |-> 1, ply |-> 0,
          slowMover |-> 0, returned |-> FALSE, value |-> 0]

Init ==
  /\ Options \in OptionValues
  /\ control \in ControlValues
  /\ limits = NoLimits
  /\ availableNodes = 0
  /\ optimumTime = 0
  /\ maximumTime = 0
  /\ startTime = 0
  /\ called = FALSE
  /\ arg = NoArg
  /\ local = NoLocal
  /\ trapped = FALSE
  /\ rem = NoRem

(***************************************************************************)
(* A search starts: the caller fills a LimitsType from the clock and calls *)
(* Time.init(limits, us, ply).  init returns and leaves one of the states  *)
(* of TimeInit, or, when an int operation of it overflows, a build that    *)
(* checks aborts the process.                                              *)
(***************************************************************************)
init(time) ==
  LET lim == [time |-> time, inc |-> control.inc, movestogo |-> control.movestogo,
              npmsec |-> 0, startTime |-> SearchStart]
  IN /\ ~trapped
     /\ \E out \in TimeInit(Options, availableNodes, lim, control.ply) :
          \/ /\ availableNodes' = out.availableNodes
             /\ limits' = out.limits
             /\ startTime' = out.startTime
             /\ optimumTime' = out.optimumTime
             /\ maximumTime' = out.maximumTime
             /\ called' = TRUE
             /\ arg' = [time |-> time, inc |-> control.inc, movestogo |-> control.movestogo,
                        ply |-> control.ply]
             /\ local' = [hypMTG |-> out.hypMTG, myTime |-> out.myTime, myInc |-> out.myInc,
                          optimumRaw |-> out.optimumRaw, maximumRaw |-> out.maximumRaw]
             /\ UNCHANGED <<Options, control, trapped, rem>>
          \/ /\ out.overflows
             /\ trapped' = TRUE
             /\ UNCHANGED <<Options, control, limits, availableNodes, optimumTime, maximumTime,
                            startTime, called, arg, local, rem>>

Next == \E time \in TimeValues : init(time)

Spec == Init /\ [][Next]_vars

(***************************************************************************)
(* remaining<T>() on its own: the arguments are drawn at the start and the *)
(* one step is the call.                                                   *)
(***************************************************************************)
RemValues == [T : TimeTypes,
              myTime : {0, 1, LowTime, HighTime, LongTime},
              myInc : {0, SmallInc, LargeInc, HugeInc},
              movesToGo : {1, 2, MidMovesToGo, MoveHorizon},
              ply : {0, LatePly, PlyCap, PlyCap + 1},
              slowMover : {1, DefaultSlowMover, 100, HighSlowMover},
              returned : {FALSE},
              value : {0}]

InitRemaining ==
  /\ rem \in RemValues
  /\ Options = [minThinkingTime |-> 0, moveOverhead |-> 0, slowMover |-> 0, nodestime |-> 0,
                Ponder |-> FALSE]
  /\ control = [inc |-> 0, movestogo |-> 0, ply |-> 0]
  /\ limits = NoLimits
  /\ availableNodes = 0
  /\ optimumTime = 0
  /\ maximumTime = 0
  /\ startTime = 0
  /\ called = FALSE
  /\ arg = NoArg
  /\ local = NoLocal
  /\ trapped = FALSE

CallRemaining ==
  /\ ~rem.returned
  /\ \E v \in remaining(rem.T, rem.myTime, rem.myInc, rem.movesToGo, rem.ply, rem.slowMover) :
       rem' = [rem EXCEPT !.returned = TRUE, !.value = v]
  /\ UNCHANGED <<Options, control, limits, availableNodes, optimumTime, maximumTime,
                 startTime, called, arg, local, trapped>>

SpecRemaining == InitRemaining /\ [][CallRemaining]_vars

(***************************************************************************)
(* Properties                                                              *)
(***************************************************************************)
MinThinkingTime == Options.minThinkingTime

\* Calls on which every conversion to int and every int operation is defined: the slow
\* mover is not 0 and the increment and the time are small.  The statements C2, C4, C5
\* and C8 are refuted on such calls.
Defined == Options.slowMover > 0 /\ control.inc < HugeInc /\ arg.time < HugeTime

\* The optimum and the maximum of the last call after the minimum thinking time floor
OptimumFloored == Max(local.optimumRaw, MinThinkingTime)
MaximumFloored == Max(local.maximumRaw, MinThinkingTime)

\* C1: after every call of init, for any non-negative time, increment, moves-to-go and
\* ply and any options, optimumTime <= maximumTime; stated for the calls with a slow
\* mover that is not 0 and Ponder off.
C1_OptimumAtMostMaximum ==
  (called /\ Options.slowMover > 0 /\ ~Options.Ponder) => optimumTime <= maximumTime

\* C2 as stated: with node-rate mode off, optimumTime and maximumTime are at most the
\* time remaining that was passed in, whatever the minimum thinking time, the move
\* overhead and the Ponder flag.
C2_BudgetsAtMostTimeLeft ==
  (called /\ Defined /\ Options.nodestime = 0) => optimumTime <= arg.time /\ maximumTime <= arg.time

\* C2 amended: with node-rate mode off, the two values remaining() returns are at most
\* the time passed in; maximumTime is at most the larger of that time and the minimum
\* thinking time, and optimumTime is at most that bound, plus a quarter of it with Ponder on.
C2_BudgetsAtMostTimeLeftOrFloor ==
  (called /\ Options.nodestime = 0) =>
    LET bound == Max(arg.time, MinThinkingTime)
    IN /\ local.optimumRaw <= arg.time
       /\ local.maximumRaw <= arg.time
       /\ maximumTime <= bound
       /\ \/ optimumTime <= bound
          \/ Options.Ponder /\ optimumTime - bound <= bound \div 4

C2_Witness ==
  /\ called /\ Options.nodestime = 0
  /\ arg.time < MinThinkingTime
  /\ maximumTime = MinThinkingTime /\ optimumTime >= MinThinkingTime

\* C3: for both modes, myTime >= 0, myInc >= 0, movesToGo >= 1, ply >= 0 and
\* slowMover > 0, remaining() returns r with 0 <= r <= myTime.
C3_RemainingWithinMyTime ==
  rem.returned => 0 <= rem.value /\ rem.value <= rem.myTime

\* C4: in node-rate mode, once init has been called, no later call assigns availableNodes.
C4_AvailableNodesAssignedOnce ==
  [][(called /\ Defined /\ Options.nodestime # 0) => availableNodes' = availableNodes]_vars

\* C5 as stated: with Ponder on, optimumTime is exactly 1.25 times the floored optimum,
\* and maximumTime is the floored maximum.
C5_PonderIsFiveQuarters ==
  (called /\ Defined /\ Options.Ponder) =>
    4 * optimumTime = 5 * OptimumFloored /\ maximumTime = MaximumFloored

\* The largest floored optimum whose sum with a quarter of it, rounded down, is INT_MAX
\* at most: 1717986918, whose sum is INT_MAX
LargestInflatable == IntMax - IntMax \div 5

\* C5 amended: with Ponder on, optimumTime is the floored optimum plus a quarter of it
\* rounded down to a whole number, less 2^32 when that sum is above INT_MAX and the
\* addition wraps, which it does for the floored optima above 1717986918 and for no
\* other; maximumTime is the floored maximum.
C5_PonderAddsQuarterRoundedDown ==
  (called /\ Options.Ponder) =>
    LET added == IF optimumTime >= OptimumFloored THEN optimumTime - OptimumFloored
                 ELSE (optimumTime - IntMin) + (IntMax - OptimumFloored) + 1
    IN /\ optimumTime < OptimumFloored <=> OptimumFloored > LargestInflatable
       /\ 4 * added <= OptimumFloored
       /\ OptimumFloored < 4 * added + 4
       /\ maximumTime = MaximumFloored

C5_Witness ==
  /\ called /\ Options.Ponder
  /\ OptimumFloored > MinThinkingTime
  /\ OptimumFloored % 4 # 0
  /\ optimumTime > OptimumFloored

\* The budgets of the last call, had it been passed the increment inc
WithIncrement(inc) ==
  TimeInit(Options, availableNodes,
           [time |-> arg.time, inc |-> inc, movestogo |-> arg.movestogo,
            npmsec |-> 0, startTime |-> SearchStart],
           arg.ply)

MoreIncrements == {SmallInc, LargeInc, HugeInc}

\* C6: a call that differs from the last one only in a larger increment yields an
\* optimumTime and a maximumTime at least as large.
C6_MonotoneInIncrement ==
  called => \A inc \in MoreIncrements :
              inc > arg.inc => \A out \in WithIncrement(inc) :
                                 /\ out.optimumTime >= optimumTime
                                 /\ out.maximumTime >= maximumTime

\* C7: with movesToGo = 1 remaining() returns exactly myTime, in both modes.
C7_SingleMoveGetsAllTime ==
  (rem.returned /\ rem.movesToGo = 1) => rem.value = rem.myTime

C7_Witness ==
  /\ rem.returned /\ rem.movesToGo = 1 /\ rem.T = "MaxTime"
  /\ rem.myInc > 0 /\ rem.myTime > 0
  /\ rem.value = rem.myTime

\* C8 as stated: after any call of init the caller's time remaining, increment and
\* moves-to-go have the values they were passed with.
C8_LimitsReadOnly ==
  (called /\ Defined) => /\ limits.time = arg.time
            /\ limits.inc = arg.inc
            /\ limits.movestogo = arg.movestogo

\* The low 32 bits, as an int, of the product of an int a and b in 0..32767,
\* 16 bits at a time
Low32OfProduct(a, b) ==
  LET low == (a % 65536) * b
      high == ((a \div 65536) * b + low \div 65536) % 65536
  IN (IF high >= 32768 THEN high - 65536 ELSE high) * 65536 + (low % 65536)

\* C8 amended: init never changes moves-to-go; with node-rate mode off it leaves the time
\* remaining and the increment as passed; in node-rate mode it overwrites the time
\* remaining with availableNodes, multiplies the increment by nodestime (the int product:
\* its low 32 bits when it does not fit) and sets npmsec.
C8_LimitsReadOnlyUnlessNodesTime ==
  called => /\ limits.movestogo = arg.movestogo
            /\ Options.nodestime = 0 =>
                 limits.time = arg.time /\ limits.inc = arg.inc /\ limits.npmsec = 0
            /\ Options.nodestime # 0 =>
                 /\ limits.time = availableNodes
                 /\ limits.inc = Low32OfProduct(arg.inc, Options.nodestime)
                 /\ limits.npmsec = Options.nodestime
            /\ startTime = limits.startTime

C8_Witness ==
  /\ called /\ Options.nodestime # 0
  /\ limits.time # arg.time /\ limits.inc # arg.inc
  /\ limits.movestogo = arg.movestogo

\* The divisor of the last call is not zero
DivisorPositive == ~BigIsZero(moveImportance(CapPly(arg.ply), Options.slowMover))

\* C9: for every input moveImportance is strictly positive, the two conversions to int
\* are defined and yield non-negative values, and init yields a non-negative optimumTime
\* and maximumTime; stated for the calls with a slow mover that is not 0.
C9_NoErrorPath ==
  (called /\ Options.slowMover > 0) =>
    /\ DivisorPositive
    /\ local.optimumRaw >= 0 /\ local.maximumRaw >= 0
    /\ optimumTime >= 0 /\ maximumTime >= 0

\* C10: the horizon init hands to remaining() is 100 for moves-to-go 0 and
\* min(moves-to-go, 100) otherwise, lies in 1..100, so that the summation runs at most
\* 99 times, and is the one horizon of both calls.
C10_HorizonNormalized ==
  called =>
    /\ local.hypMTG \in 1..MoveHorizon
    /\ local.hypMTG - 1 <= 99
    /\ arg.movestogo = 0 => local.hypMTG = 100
    /\ arg.movestogo \in 1..100 => local.hypMTG = arg.movestogo
    /\ arg.movestogo > 100 => local.hypMTG = 100
    /\ local.optimumRaw \in remaining("OptimumTime", local.myTime, local.myInc, local.hypMTG,
                                      arg.ply, Options.slowMover)
    /\ local.maximumRaw \in remaining("MaxTime", local.myTime, local.myInc, local.hypMTG,
                                      arg.ply, Options.slowMover)

C10_Witness ==
  /\ called /\ arg.movestogo > MoveHorizon
  /\ local.hypMTG = MoveHorizon
=============================================================================
